---- MODULE Spec2Model ----
(***************************************************************************)
(* Best Buy store management: the Product hierarchy (products.py), the     *)
(* Promotion strategies (promotions.py) and the Store (store.py).          *)
(*                                                                         *)
(* Objects live in a heap `objs` (id -> object record); a Product's        *)
(* `promotion` attribute and the Store's `products` list hold ids, so      *)
(* sharing is by reference as in the Python code.  Every method call is    *)
(* one action; what the caller observes (the value returned or the         *)
(* ValueError raised, told apart by its message) is recorded in `last`.    *)
(*                                                                         *)
(* Amounts of money are exact rationals, written as integer counts of      *)
(* 1/Unit so that "* 0.5" and "/ 100" stay exact.                          *)
(***************************************************************************)
EXTENDS Integers, Sequences, FiniteSets, TLC

VARIABLES
    objs,           \* heap of Product objects: id -> record (or Unbuilt)
    promos,         \* heap of Promotion objects: id -> record
    products,       \* Store.products: sequence of product ids
    pc,             \* "idle", or "order" while Store.order runs its loop
    todo,           \* Store.order: items of shopping_list not yet reached
    total_price,    \* Store.order: the local accumulator total_price
    bought,         \* history: units of each LimitedProduct bought by the
                    \* running call of Store.order
    ledger,         \* history: for each stocked product its stock when the
                    \* ledger was opened and the units sold since (empty
                    \* where no ledger is kept)
    last            \* the latest call and its outcome

vars == <<objs, promos, products, pc, todo, total_price, bought, ledger, last>>

-----------------------------------------------------------------------------
(* Bounds of the explored inputs                                           *)

MaxQty == 3         \* quantities passed to constructors, set_quantity, buy
MaxPrice == 2       \* prices passed to constructors
MaxMaximum == 2     \* per-order maxima passed to LimitedProduct
MaxItems == 3       \* length of a shopping list

(* Denominators of the two fractions the promotions use *)
Cent == 100         \* (100 - percent) / 100
Half == 2           \* product.price * 0.5
Unit == Cent * Half

Money(n) == n * Unit

Kinds == {"Product", "NonStockedProduct", "LimitedProduct"}
Stocked == {"Product", "LimitedProduct"}
Names == {"", "Widget"}
PriceArgs == -1 .. MaxPrice
QtyArgs == -1 .. MaxQty
BuyArgs == -1 .. (MaxQty + 1)
MaximumArgs == -1 .. MaxMaximum

None == "None"
Unbuilt == [kind |-> "Unbuilt"]

(* The messages of the ValueErrors, by the check that raises them *)
EmptyNameError == "Product name cannot be empty"
NegativePriceError == "Product price cannot be negative"
NegativeQuantityError == "Product quantity cannot be negative"
ValidationErrors == {EmptyNameError, NegativePriceError, NegativeQuantityError}
InvalidQuantityError == "Purchase quantity must be greater than 0"
InactiveProductError == "Product is not active"
InsufficientStockError == "Only {quantity} items available"
PurchaseLimitError == "Cannot purchase more than {maximum} per order"

Raise(msg) == [ok |-> FALSE, type |-> "ValueError", err |-> msg]
Return(v) == [ok |-> TRUE, ret |-> v]
Done == [ok |-> TRUE]

-----------------------------------------------------------------------------
(* promotions.py                                                           *)

PercentDiscount(percent) == [kind |-> "PercentDiscount", percent |-> percent]
SecondHalfPrice == [kind |-> "SecondHalfPrice"]
ThirdOneFree == [kind |-> "ThirdOneFree"]

PercentDiscount_apply_promotion(promo, price, quantity) ==
    LET total == price * quantity
    IN  total * (Cent - promo.percent) * Half

(* Faulty variant: the full-price and half-price counts are swapped *)
SecondHalfPrice_apply_promotion_Swapped(promo, price, quantity) ==
    LET full_price_items == quantity \div 2
        half_price_items == (quantity + 1) \div 2
    IN  Money(full_price_items * price) + half_price_items * price * (Unit \div Half)

SecondHalfPrice_apply_promotion(promo, price, quantity) ==
    LET full_price_items == (quantity + 1) \div 2
        half_price_items == quantity \div 2
    IN  Money(full_price_items * price) + half_price_items * price * (Unit \div Half)

(* Faulty variant: the items beyond the last full group of 3 are dropped *)
ThirdOneFree_apply_promotion_NoRest(promo, price, quantity) ==
    LET paid_items == (quantity \div 3) * 2
    IN  Money(paid_items * price)

ThirdOneFree_apply_promotion(promo, price, quantity) ==
    LET paid_items == (quantity \div 3) * 2 + (quantity % 3)
    IN  Money(paid_items * price)

apply_promotion(promo, price, quantity) ==
    CASE promo.kind = "PercentDiscount" ->
            PercentDiscount_apply_promotion(promo, price, quantity)
      [] promo.kind = "SecondHalfPrice" ->
            SecondHalfPrice_apply_promotion(promo, price, quantity)
      [] promo.kind = "ThirdOneFree" ->
            ThirdOneFree_apply_promotion(promo, price, quantity)

PromoHeap ==
    [pct |-> PercentDiscount(30), half |-> SecondHalfPrice, third |-> ThirdOneFree]

PromoIds == DOMAIN PromoHeap

-----------------------------------------------------------------------------
(* products.py: constructors.  Each yields Raise(..) or Return(object).    *)

(* Faulty variant: the constructor always starts the product active *)
Product_init_AlwaysActive(kind, name, price, quantity) ==
    IF name = "" THEN Raise(EmptyNameError)
    ELSE IF price < 0 THEN Raise(NegativePriceError)
    ELSE IF quantity < 0 THEN Raise(NegativeQuantityError)
    ELSE Return([kind |-> kind, name |-> name, price |-> price,
                 quantity |-> quantity, active |-> TRUE,
                 promotion |-> None])

Product_init(kind, name, price, quantity) ==
    IF name = "" THEN Raise(EmptyNameError)
    ELSE IF price < 0 THEN Raise(NegativePriceError)
    ELSE IF quantity < 0 THEN Raise(NegativeQuantityError)
    ELSE Return([kind |-> kind, name |-> name, price |-> price,
                 quantity |-> quantity, active |-> (quantity > 0),
                 promotion |-> None])

NonStockedProduct_init(name, price) ==
    LET super == Product_init("NonStockedProduct", name, price, 0)
    IN  IF super.ok THEN Return([super.ret EXCEPT !.active = TRUE]) ELSE super

LimitedProduct_init(name, price, quantity, maximum) ==
    LET super == Product_init("LimitedProduct", name, price, quantity)
    IN  IF super.ok
        THEN Return([f \in DOMAIN super.ret \cup {"maximum"} |->
                        IF f = "maximum" THEN maximum ELSE super.ret[f]])
        ELSE super

(* products.py: methods, as functions from the object to the object after  *)

activate(p) == [p EXCEPT !.active = TRUE]

deactivate(p) == [p EXCEPT !.active = FALSE]

set_promotion(p, promotion) == [p EXCEPT !.promotion = promotion]

(* Faulty variant: a nonzero quantity reactivates the product *)
Product_set_quantity_Reactivates(p, quantity) ==
    [p EXCEPT !.quantity = quantity, !.active = (quantity # 0)]

(* Faulty variant: reaching 0 does not deactivate the product *)
Product_set_quantity_NoDeactivate(p, quantity) ==
    [p EXCEPT !.quantity = quantity]

Product_set_quantity(p, quantity) ==
    LET q == [p EXCEPT !.quantity = quantity]
    IN  IF q.quantity = 0 THEN deactivate(q) ELSE q

NonStockedProduct_set_quantity(p, quantity) == p

set_quantity(p, quantity) ==
    IF p.kind = "NonStockedProduct"
    THEN NonStockedProduct_set_quantity(p, quantity)
    ELSE Product_set_quantity(p, quantity)

(* Faulty variant: the attached promotion is not consulted *)
PriceOf_IgnoresPromotion(p, ph, quantity) ==
    Money(p.price * quantity)

(* The price computation shared by Product.buy and NonStockedProduct.buy:  *)
(* `if self.promotion:` is true of every Promotion object.                 *)
PriceOf(p, ph, quantity) ==
    IF p.promotion # None
    THEN apply_promotion(ph[p.promotion], p.price, quantity)
    ELSE Money(p.price * quantity)

(* Faulty variant: the purchase is priced but the stock is not updated *)
Product_buy_NoDecrement(p, ph, quantity) ==
    IF quantity <= 0 THEN [res |-> Raise(InvalidQuantityError), obj |-> p]
    ELSE IF ~p.active THEN [res |-> Raise(InactiveProductError), obj |-> p]
    ELSE IF quantity > p.quantity
         THEN [res |-> Raise(InsufficientStockError), obj |-> p]
    ELSE [res |-> Return(PriceOf(p, ph, quantity)), obj |-> p]

(* Faulty variant: the stock check is off by one (>= for >) *)
Product_buy_StockOffByOne(p, ph, quantity) ==
    IF quantity <= 0 THEN [res |-> Raise(InvalidQuantityError), obj |-> p]
    ELSE IF ~p.active THEN [res |-> Raise(InactiveProductError), obj |-> p]
    ELSE IF quantity > p.quantity + 1
         THEN [res |-> Raise(InsufficientStockError), obj |-> p]
    ELSE [res |-> Return(PriceOf(p, ph, quantity)),
          obj |-> set_quantity(p, p.quantity - quantity)]

(* Faulty variant: the stock is not checked *)
Product_buy_NoStockCheck(p, ph, quantity) ==
    IF quantity <= 0 THEN [res |-> Raise(InvalidQuantityError), obj |-> p]
    ELSE IF ~p.active THEN [res |-> Raise(InactiveProductError), obj |-> p]
    ELSE [res |-> Return(PriceOf(p, ph, quantity)),
          obj |-> set_quantity(p, p.quantity - quantity)]

(* Faulty variant: the active flag is not checked *)
Product_buy_NoActiveCheck(p, ph, quantity) ==
    IF quantity <= 0 THEN [res |-> Raise(InvalidQuantityError), obj |-> p]
    ELSE IF quantity > p.quantity
         THEN [res |-> Raise(InsufficientStockError), obj |-> p]
    ELSE [res |-> Return(PriceOf(p, ph, quantity)),
          obj |-> set_quantity(p, p.quantity - quantity)]

(* buy yields [res |-> Raise(..) or Return(total), obj |-> object after]   *)
Product_buy(p, ph, quantity) ==
    IF quantity <= 0 THEN [res |-> Raise(InvalidQuantityError), obj |-> p]
    ELSE IF ~p.active THEN [res |-> Raise(InactiveProductError), obj |-> p]
    ELSE IF quantity > p.quantity
         THEN [res |-> Raise(InsufficientStockError), obj |-> p]
    ELSE [res |-> Return(PriceOf(p, ph, quantity)),
          obj |-> set_quantity(p, p.quantity - quantity)]

(* Faulty variant: buy is not overridden, the stock rules of Product apply *)
NonStockedProduct_buy_Inherited(p, ph, quantity) ==
    IF quantity <= 0 THEN [res |-> Raise(InvalidQuantityError), obj |-> p]
    ELSE IF ~p.active THEN [res |-> Raise(InactiveProductError), obj |-> p]
    ELSE IF quantity > p.quantity
         THEN [res |-> Raise(InsufficientStockError), obj |-> p]
    ELSE [res |-> Return(PriceOf(p, ph, quantity)),
          obj |-> [p EXCEPT !.quantity = p.quantity - quantity]]

NonStockedProduct_buy(p, ph, quantity) ==
    IF quantity <= 0 THEN [res |-> Raise(InvalidQuantityError), obj |-> p]
    ELSE [res |-> Return(PriceOf(p, ph, quantity)), obj |-> p]

(* Faulty variant: the per-order maximum is not enforced *)
LimitedProduct_buy_NoLimit(p, ph, quantity) ==
    Product_buy(p, ph, quantity)

(* Faulty variant: the per-order maximum is checked after the base rules *)
LimitedProduct_buy_LimitLast(p, ph, quantity) ==
    LET r == Product_buy(p, ph, quantity)
    IN  IF ~r.res.ok THEN r
        ELSE IF quantity > p.maximum
             THEN [res |-> Raise(PurchaseLimitError), obj |-> p]
        ELSE r

LimitedProduct_buy(p, ph, quantity) ==
    IF quantity > p.maximum
    THEN [res |-> Raise(PurchaseLimitError), obj |-> p]
    ELSE Product_buy(p, ph, quantity)

buy(p, ph, quantity) ==
    CASE p.kind = "Product" -> Product_buy(p, ph, quantity)
      [] p.kind = "NonStockedProduct" -> NonStockedProduct_buy(p, ph, quantity)
      [] p.kind = "LimitedProduct" -> LimitedProduct_buy(p, ph, quantity)

-----------------------------------------------------------------------------
(* Calls on one product object                                             *)

Built(i) == objs[i] # Unbuilt

(* Nothing bought yet of any LimitedProduct of heap h *)
NoneBought(h) == [i \in {j \in DOMAIN h : h[j].kind = "LimitedProduct"} |-> 0]

(* No ledger is kept *)
NoLedger == <<>>

(* The ledger of heap h with nothing sold yet *)
Opening(h) ==
    [i \in {j \in DOMAIN h : h[j].kind \in Stocked} |->
        [initial |-> h[i].quantity, sold |-> 0]]

StoreIdle == UNCHANGED <<promos, products, pc, todo, total_price, bought, ledger>>

Construct(kind, name, price, quantity, maximum) ==
    CASE kind = "Product" -> Product_init(kind, name, price, quantity)
      [] kind = "NonStockedProduct" -> NonStockedProduct_init(name, price)
      [] kind = "LimitedProduct" ->
            LimitedProduct_init(name, price, quantity, maximum)

CallCreate(i, kind, name, price, quantity, maximum) ==
    /\ pc = "idle"
    /\ ~Built(i)
    /\ LET r == Construct(kind, name, price, quantity, maximum)
       IN  /\ objs' = [objs EXCEPT ![i] = IF r.ok THEN r.ret ELSE @]
           /\ last' = [op |-> "create", obj |-> i, kind |-> kind, name |-> name,
                       price |-> price, quantity |-> quantity,
                       res |-> IF r.ok THEN Done ELSE r]
    /\ StoreIdle

(* Faulty variant: a purchase also takes the units from every other        *)
(* product that holds the same Promotion object                            *)
CallBuy_SharedPromotion(i, quantity) ==
    /\ pc = "idle"
    /\ Built(i)
    /\ LET r == buy(objs[i], promos, quantity)
           shares(j) == /\ Built(j)
                        /\ objs[j].promotion # None
                        /\ objs[j].promotion = objs[i].promotion
       IN  /\ objs' = [j \in DOMAIN objs |->
                        IF j = i THEN r.obj
                        ELSE IF r.res.ok /\ shares(j)
                             THEN set_quantity(objs[j], objs[j].quantity - quantity)
                        ELSE objs[j]]
           /\ last' = [op |-> "buy", obj |-> i, quantity |-> quantity,
                       res |-> r.res]
    /\ UNCHANGED <<promos, products, pc, todo, total_price, bought>>

CallBuy(i, quantity) ==
    /\ pc = "idle"
    /\ Built(i)
    /\ LET r == buy(objs[i], promos, quantity)
       IN  /\ objs' = [objs EXCEPT ![i] = r.obj]
           /\ last' = [op |-> "buy", obj |-> i, quantity |-> quantity,
                       res |-> r.res]
    /\ UNCHANGED <<promos, products, pc, todo, total_price, bought>>

CallSetQuantity(i, quantity) ==
    /\ pc = "idle"
    /\ Built(i)
    /\ objs' = [objs EXCEPT ![i] = set_quantity(@, quantity)]
    /\ last' = [op |-> "set_quantity", obj |-> i, quantity |-> quantity,
                res |-> Done]
    /\ StoreIdle

CallActivate(i) ==
    /\ pc = "idle"
    /\ Built(i)
    /\ objs' = [objs EXCEPT ![i] = activate(@)]
    /\ last' = [op |-> "activate", obj |-> i, res |-> Done]
    /\ StoreIdle

CallDeactivate(i) ==
    /\ pc = "idle"
    /\ Built(i)
    /\ objs' = [objs EXCEPT ![i] = deactivate(@)]
    /\ last' = [op |-> "deactivate", obj |-> i, res |-> Done]
    /\ StoreIdle

CallSetPromotion(i, promotion) ==
    /\ pc = "idle"
    /\ Built(i)
    /\ objs' = [objs EXCEPT ![i] = set_promotion(@, promotion)]
    /\ last' = [op |-> "set_promotion", obj |-> i, promotion |-> promotion,
                res |-> Done]
    /\ StoreIdle

-----------------------------------------------------------------------------
(* Spec: the life of one product object, from its construction on          *)

Slot == "p"

Init ==
    /\ objs = [i \in {Slot} |-> Unbuilt]
    /\ promos = PromoHeap
    /\ products = <<>>
    /\ pc = "idle"
    /\ todo = 0
    /\ total_price = 0
    /\ bought = NoneBought(objs)
    /\ ledger = NoLedger
    /\ last = [op |-> "none", res |-> Done]

(* NonStockedProduct takes no quantity and only LimitedProduct a maximum *)
Create ==
    \E kind \in Kinds, name \in Names, price \in PriceArgs :
        \E quantity \in (IF kind = "NonStockedProduct" THEN {0} ELSE QtyArgs),
           maximum \in (IF kind = "LimitedProduct" THEN MaximumArgs ELSE {0}) :
            CallCreate(Slot, kind, name, price, quantity, maximum)

Buy == \E quantity \in BuyArgs : CallBuy(Slot, quantity) /\ UNCHANGED ledger

SetQuantity == \E quantity \in QtyArgs : CallSetQuantity(Slot, quantity)

Activate == CallActivate(Slot)

Deactivate == CallDeactivate(Slot)

SetPromotion == \E promotion \in PromoIds \cup {None} : CallSetPromotion(Slot, promotion)

Next ==
    \/ Create
    \/ Buy
    \/ SetQuantity
    \/ Activate
    \/ Deactivate
    \/ SetPromotion

Spec == Init /\ [][Next]_vars

(* SpecStock: the same life, with set_quantity called as its callers in    *)
(* buy and the tests call it, with a quantity >= 0                         *)
SetQuantityNat == \E quantity \in 0 .. MaxQty : CallSetQuantity(Slot, quantity)

NextStock ==
    \/ Create
    \/ Buy
    \/ SetQuantityNat
    \/ Activate
    \/ Deactivate
    \/ SetPromotion

SpecStock == Init /\ [][NextStock]_vars

-----------------------------------------------------------------------------
(* store.py: Store.order.  The loop `for item in shopping_list` runs one   *)
(* item per step; the shopping list is an input of the call, of which the  *)
(* model keeps the number of items still to come (`todo`) and draws each   *)
(* item when the loop reaches it.                                          *)

(* Faulty variant: a failed item voids what the order has added up so far *)
order_item_VoidsTotal(total, res) ==
    IF res.ok THEN [raised |-> FALSE, total_price |-> total + res.ret]
    ELSE [raised |-> FALSE, total_price |-> 0]

(* Faulty variant: no try/except, the ValueError of buy leaves order *)
order_item_Propagates(total, res) ==
    IF res.ok THEN [raised |-> FALSE, total_price |-> total + res.ret]
    ELSE [raised |-> TRUE, total_price |-> total]

(* try: item_price = product.buy(quantity); total_price += item_price      *)
(* except ValueError: print(...) -- and the loop goes on                   *)
order_item(total, res) ==
    IF res.ok THEN [raised |-> FALSE, total_price |-> total + res.ret]
    ELSE IF res.type = "ValueError"
         THEN [raised |-> FALSE, total_price |-> total]
         ELSE [raised |-> TRUE, total_price |-> total]

OrderCall(n) ==
    /\ pc = "idle"
    /\ pc' = "order"
    /\ todo' = n
    /\ total_price' = 0
    /\ bought' = NoneBought(objs)
    /\ last' = [op |-> "order_call", len |-> n]
    /\ UNCHANGED <<objs, promos, products, ledger>>

OrderItem(i, quantity) ==
    /\ pc = "order"
    /\ todo > 0
    /\ Built(i)
    /\ LET r == buy(objs[i], promos, quantity)
           b == order_item(total_price, r.res)
       IN  /\ objs' = [objs EXCEPT ![i] = r.obj]
           /\ IF b.raised
              THEN /\ pc' = "idle"
                   /\ todo' = 0
                   /\ total_price' = 0
                   /\ bought' = NoneBought(objs)
                   /\ last' = [op |-> "order", res |-> r.res]
              ELSE /\ pc' = "order"
                   /\ todo' = todo - 1
                   /\ total_price' = b.total_price
                   /\ bought' = IF r.res.ok /\ i \in DOMAIN bought
                                THEN [bought EXCEPT ![i] = @ + quantity]
                                ELSE bought
                   /\ last' = [op |-> "buy", obj |-> i, quantity |-> quantity,
                               res |-> r.res]
    /\ UNCHANGED <<promos, products>>

OrderReturn ==
    /\ pc = "order"
    /\ todo = 0
    /\ pc' = "idle"
    /\ total_price' = 0
    /\ bought' = NoneBought(objs)
    /\ last' = [op |-> "order", res |-> Return(total_price)]
    /\ UNCHANGED <<objs, promos, products, todo, ledger>>

-----------------------------------------------------------------------------
(* SpecOrder: a store of one product of each class, its orders, and the    *)
(* calls on its products between orders                                    *)

MaxStock == 2       \* stock of the store's products

StockArgs == 0 .. MaxStock
OrderQtyArgs == 0 .. (MaxStock + 1)

Catalog(qw, qs) ==
    [widget |-> Product_init("Product", "Widget", 2, qw).ret,
     shipping |-> LimitedProduct_init("Shipping", 1, qs, 1).ret,
     license |-> NonStockedProduct_init("License", 3).ret]

CatalogIds == DOMAIN Catalog(0, 0)

InitOrder ==
    /\ \E qw \in StockArgs, qs \in StockArgs : objs = Catalog(qw, qs)
    /\ promos = PromoHeap
    /\ products = <<"widget", "shipping", "license">>
    /\ pc = "idle"
    /\ todo = 0
    /\ total_price = 0
    /\ bought = NoneBought(objs)
    /\ ledger = NoLedger
    /\ last = [op |-> "none", res |-> Done]

Order == \E n \in 0 .. MaxItems : OrderCall(n)

Item ==
    \E i \in CatalogIds, quantity \in OrderQtyArgs :
        OrderItem(i, quantity) /\ UNCHANGED ledger

Restock == \E i \in CatalogIds, quantity \in StockArgs : CallSetQuantity(i, quantity)

Reactivate == \E i \in CatalogIds : CallActivate(i)

Withdraw == \E i \in CatalogIds : CallDeactivate(i)

NextOrder ==
    \/ Order
    \/ Item
    \/ OrderReturn
    \/ Restock
    \/ Reactivate
    \/ Withdraw

SpecOrder == InitOrder /\ [][NextOrder]_vars

(* The loop is sequential code: once called, order keeps running *)
FairSpecOrder == SpecOrder /\ WF_vars(Item) /\ WF_vars(OrderReturn)

-----------------------------------------------------------------------------
(* SpecLedger: the products of the store from their construction on, with  *)
(* purchases (direct and by Store.order), activate and deactivate but no   *)
(* set_quantity from outside; the ledger adds up what was sold             *)

(* The ledger after the call recorded in `call` *)
Tally(l, call) ==
    IF call.op = "buy" /\ call.res.ok /\ call.obj \in DOMAIN l
    THEN [l EXCEPT ![call.obj].sold = @ + call.quantity]
    ELSE l

InitLedger ==
    /\ \E qw \in StockArgs, qs \in StockArgs : objs = Catalog(qw, qs)
    /\ promos = PromoHeap
    /\ products = <<"widget", "shipping", "license">>
    /\ pc = "idle"
    /\ todo = 0
    /\ total_price = 0
    /\ bought = NoneBought(objs)
    /\ ledger = Opening(objs)
    /\ last = [op |-> "none", res |-> Done]

LedgerBuy ==
    \E i \in CatalogIds, quantity \in OrderQtyArgs :
        CallBuy(i, quantity) /\ ledger' = Tally(ledger, last')

LedgerItem ==
    \E i \in CatalogIds, quantity \in OrderQtyArgs :
        OrderItem(i, quantity) /\ ledger' = Tally(ledger, last')

NextLedger ==
    \/ LedgerBuy
    \/ Order
    \/ LedgerItem
    \/ OrderReturn
    \/ Reactivate
    \/ Withdraw

SpecLedger == InitLedger /\ [][NextLedger]_vars

-----------------------------------------------------------------------------
(* SpecShared: the products of the store with promotions attached, which   *)
(* several products may share, and purchases (direct and by Store.order)   *)

Attach ==
    \E i \in CatalogIds, promotion \in PromoIds \cup {None} :
        CallSetPromotion(i, promotion)

DirectBuy ==
    \E i \in CatalogIds, quantity \in OrderQtyArgs :
        CallBuy(i, quantity) /\ UNCHANGED ledger

NextShared ==
    \/ Attach
    \/ DirectBuy
    \/ OrderCall(1)
    \/ Item
    \/ OrderReturn

SpecShared == InitOrder /\ [][NextShared]_vars

-----------------------------------------------------------------------------
(* store.py: the product list of the Store                                 *)

MaxProducts == 3    \* length of Store.products

add_product(ps, i) == Append(ps, i)

InList(ps, i) == \E k \in 1 .. Len(ps) : ps[k] = i

(* list.remove(x) removes the first occurrence of x *)
remove_product(ps, i) ==
    IF InList(ps, i)
    THEN LET k == CHOOSE k \in 1 .. Len(ps) :
                    ps[k] = i /\ \A j \in 1 .. (k - 1) : ps[j] # i
         IN  SubSeq(ps, 1, k - 1) \o SubSeq(ps, k + 1, Len(ps))
    ELSE ps

(* total = 0; for product in self.products: total += product.get_quantity() *)
RECURSIVE TotalLoop(_, _, _, _)
TotalLoop(ps, h, k, total) ==
    IF k > Len(ps) THEN total
    ELSE TotalLoop(ps, h, k + 1, total + h[ps[k]].quantity)

(* Faulty variant: inactive products are left out of the total *)
get_total_quantity_ActiveOnly(ps, h) ==
    TotalLoop(SelectSeq(ps, LAMBDA i : h[i].active), h, 1, 0)

get_total_quantity(ps, h) == TotalLoop(ps, h, 1, 0)

(* for product in self.products: if product.is_active(): append *)
RECURSIVE ActiveLoop(_, _, _, _)
ActiveLoop(ps, h, k, active_products) ==
    IF k > Len(ps) THEN active_products
    ELSE ActiveLoop(ps, h, k + 1,
                    IF h[ps[k]].active
                    THEN Append(active_products, ps[k])
                    ELSE active_products)

(* Faulty variant: the listing keeps the products in stock, not the active *)
get_all_products_InStock(ps, h) ==
    SelectSeq(ps, LAMBDA i : h[i].quantity > 0)

get_all_products(ps, h) == ActiveLoop(ps, h, 1, <<>>)

StoreCall ==
    pc = "idle" /\ UNCHANGED <<objs, promos, pc, todo, total_price, bought, ledger>>

CallAddProduct(i) ==
    /\ StoreCall
    /\ Built(i)
    /\ Len(products) < MaxProducts
    /\ products' = add_product(products, i)
    /\ last' = [op |-> "add_product", obj |-> i, res |-> Done]

CallRemoveProduct(i) ==
    /\ StoreCall
    /\ Built(i)
    /\ products' = remove_product(products, i)
    /\ last' = [op |-> "remove_product", obj |-> i, res |-> Done]

CallGetTotalQuantity ==
    /\ StoreCall
    /\ UNCHANGED products
    /\ last' = [op |-> "get_total_quantity",
                res |-> Return(get_total_quantity(products, objs))]

CallGetAllProducts ==
    /\ StoreCall
    /\ UNCHANGED products
    /\ last' = [op |-> "get_all_products",
                listing |-> get_all_products(products, objs)]

-----------------------------------------------------------------------------
(* SpecStore: the store of SpecOrder with its product list changing        *)

AddProduct == \E i \in CatalogIds : CallAddProduct(i)

RemoveProduct == \E i \in CatalogIds : CallRemoveProduct(i)

(* Orders of one item: an order of several items changes the products as   *)
(* the one-item orders of its items do, one after the other                *)
OneItemOrder == OrderCall(1)

NextStore ==
    \/ AddProduct
    \/ RemoveProduct
    \/ CallGetTotalQuantity
    \/ CallGetAllProducts
    \/ OneItemOrder
    \/ Item
    \/ OrderReturn
    \/ Restock
    \/ Reactivate
    \/ Withdraw

SpecStore == InitOrder /\ [][NextStore]_vars

-----------------------------------------------------------------------------
(* Properties of Store.order                                               *)

OrderCalled == pc = "idle" /\ pc' = "order"
OrderLooped == pc = "order" /\ pc' = "order"
OrderLeft == pc = "order" /\ pc' = "idle"

(* C3: Store.order is best-effort: every item is attempted, an item whose  *)
(* purchase fails contributes 0 and leaves that product's stock unchanged, *)
(* the remaining items are still processed, and the returned total is the  *)
(* sum of the totals of exactly the items whose purchase succeeded: the    *)
(* running total starts at 0, each item adds its price if it is bought and *)
(* nothing if it is not, and the total is returned once no item is left.   *)
C3_BestEffort ==
    [][/\ OrderCalled => (total_price' = 0 /\ todo' = last'.len)
       /\ OrderLooped =>
            /\ last'.op = "buy"
            /\ todo' = todo - 1
            /\ last'.res = buy(objs[last'.obj], promos, last'.quantity).res
            /\ last'.res.ok => total_price' = total_price + last'.res.ret
            /\ ~last'.res.ok => (total_price' = total_price /\ objs' = objs)
            /\ \A j \in DOMAIN objs : j # last'.obj => objs'[j] = objs[j]
       /\ OrderLeft =>
            /\ todo = 0
            /\ last' = [op |-> "order", res |-> Return(total_price)]
            /\ objs' = objs]_vars

(* An order in which one item was bought, a later item failed and at least *)
(* one more item is still to come                                          *)
C3_Witness ==
    /\ pc = "order"
    /\ todo >= 1
    /\ total_price > 0
    /\ last.op = "buy"
    /\ last.res = Raise(InsufficientStockError)

(* C4: Store.order never propagates a purchase error and always runs to    *)
(* completion over its finite list: whatever the products' classes and     *)
(* states, a call of order returns a total; each failing item leaves the   *)
(* loop running; an item that buys the whole stock of Widget adds          *)
(* price*stock and leaves Widget inactive, and an order of the one item    *)
(* (Widget, q) on the inactive Widget then returns 0.                      *)
C4_OrderCompletes ==
    /\ (pc = "order") ~> (pc = "idle" /\ last.op = "order" /\ last.res.ok)
    /\ [][/\ (pc = "order" /\ todo > 0 /\ last'.op = "buy" /\ ~last'.res.ok)
               => pc' = "order"
          /\ (OrderLooped /\ last'.obj = "widget" /\ last'.res.ok
                 /\ last'.quantity = objs.widget.quantity)
               => /\ total_price' =
                        total_price + Money(objs.widget.price * objs.widget.quantity)
                  /\ ~objs'.widget.active
          /\ (OrderLooped /\ last.op = "order_call" /\ last.len = 1
                 /\ last'.obj = "widget" /\ ~objs.widget.active)
               => (todo' = 0 /\ total_price' = 0 /\ ~last'.res.ok)
          /\ OrderLeft => last'.res = Return(total_price)]_vars

(* The second order of the scenario: its item on the sold-out, inactive    *)
(* Widget has failed, nothing was added, and order is about to return      *)
C4_Witness ==
    /\ pc = "order"
    /\ todo = 0
    /\ total_price = 0
    /\ last.op = "buy" /\ last.obj = "widget" /\ last.quantity = 1
    /\ last.res = Raise(InactiveProductError)
    /\ objs.widget.quantity = 0
    /\ ~objs.widget.active

(* C12: within a single Store.order call, the total quantity of a Limited  *)
(* product with maximum M that is successfully bought, summed over all     *)
(* items of the shopping list that name it, never exceeds M.               *)
C12_LimitPerOrder ==
    \A i \in DOMAIN bought : bought[i] <= objs[i].maximum

-----------------------------------------------------------------------------
(* main.py: the cart builder's availability check.  SpecCart applies it to *)
(* the products of the active listing, with the quantities build_cart can  *)
(* pass: a requested quantity that validate_num_input let through (> 0)    *)
(* and the quantity of that product already in the cart (>= 0)             *)

get_quantity(p) == p.quantity

check_availability(product, requested_qty, cart_qty) ==
    LET available_qty == get_quantity(product)
        remaining_qty == available_qty - cart_qty
    IN  IF requested_qty > remaining_qty THEN FALSE ELSE TRUE

CallCheckAvailability(i, requested_qty, cart_qty) ==
    /\ pc = "idle"
    /\ InList(get_all_products(products, objs), i)
    /\ last' = [op |-> "check_availability", obj |-> i,
                requested_qty |-> requested_qty, cart_qty |-> cart_qty,
                admitted |-> check_availability(objs[i], requested_qty, cart_qty)]
    /\ UNCHANGED <<objs, promos, products, pc, todo, total_price, bought, ledger>>

CheckAvailability ==
    \E i \in CatalogIds, requested_qty \in 1 .. (MaxStock + 1), cart_qty \in StockArgs :
        CallCheckAvailability(i, requested_qty, cart_qty)

NextCart ==
    \/ CheckAvailability
    \/ Restock
    \/ Withdraw

SpecCart == InitOrder /\ [][NextCart]_vars

-----------------------------------------------------------------------------
(* SpecPromo: a promotion applied to a product of a given price, as in the *)
(* self-test of promotions.py (MockProduct)                                *)

MaxPromoQty == 9    \* quantities passed to apply_promotion

MockProduct(price) == [kind |-> "MockProduct", price |-> price]

PromoPrices == (0 .. MaxPrice) \cup {100}

CallApplyPromotion(pr, i, quantity) ==
    /\ pc = "idle"
    /\ last' = [op |-> "apply_promotion", promotion |-> pr, obj |-> i,
                quantity |-> quantity,
                res |-> Return(apply_promotion(promos[pr], objs[i].price, quantity))]
    /\ UNCHANGED <<objs, promos, products, pc, todo, total_price, bought, ledger>>

InitPromo ==
    /\ \E price \in PromoPrices : objs = [test_product |-> MockProduct(price)]
    /\ promos = PromoHeap
    /\ products = <<>>
    /\ pc = "idle"
    /\ todo = 0
    /\ total_price = 0
    /\ bought = NoneBought(objs)
    /\ ledger = NoLedger
    /\ last = [op |-> "none", res |-> Done]

ApplyPromotion ==
    \E pr \in PromoIds, quantity \in 0 .. MaxPromoQty :
        CallApplyPromotion(pr, "test_product", quantity)

NextPromo == ApplyPromotion

SpecPromo == InitPromo /\ [][NextPromo]_vars

-----------------------------------------------------------------------------
(* Properties of the promotions                                            *)

(* floor(q/d) and ceil(q/d) of a natural q, by their defining inequalities *)
Floor(q, d) == CHOOSE n \in 0 .. q : n * d <= q /\ q < (n + 1) * d
Ceil(q, d) == CHOOSE n \in 0 .. q : (n - 1) * d < q /\ q <= n * d

Applied(kind) == last.op = "apply_promotion" /\ promos[last.promotion].kind = kind

(* C15: SecondHalfPrice.apply(price, q) equals                             *)
(* ceil(q/2)*price + floor(q/2)*price/2 for every q >= 0 and price >= 0;   *)
(* at price 100 it gives 100, 150, 250, 300, 400 for q = 1..5.             *)
C15_SecondHalfPrice ==
    Applied("SecondHalfPrice")
    => LET q == last.quantity
           price == objs[last.obj].price
           table == <<100, 150, 250, 300, 400>>
       IN  /\ last.res.ok
           /\ Half * last.res.ret
                = Half * Money(Ceil(q, 2) * price) + Money(Floor(q, 2) * price)
           /\ (price = 100 /\ q \in 1 .. 5) => last.res.ret = Money(table[q])

C15_Witness ==
    /\ Applied("SecondHalfPrice")
    /\ objs[last.obj].price = 100
    /\ last.quantity = 5
    /\ last.res = Return(Money(400))

(* C16: ThirdOneFree.apply(price, q) charges exactly q - floor(q/3) units  *)
(* for every q >= 0; at price 100 it gives 100, 200, 200, 300, 400 for     *)
(* q = 1, 2, 3, 4, 6.                                                      *)
C16_ThirdOneFree ==
    Applied("ThirdOneFree")
    => LET q == last.quantity
           price == objs[last.obj].price
           table == [n \in {1, 2, 3, 4, 6} |->
                        CASE n = 1 -> 100 [] n = 2 -> 200 [] n = 3 -> 200
                          [] n = 4 -> 300 [] n = 6 -> 400]
       IN  /\ last.res = Return(Money((q - Floor(q, 3)) * price))
           /\ (price = 100 /\ q \in DOMAIN table) => last.res.ret = Money(table[q])

C16_Witness ==
    /\ Applied("ThirdOneFree")
    /\ objs[last.obj].price = 100
    /\ last.quantity = 6
    /\ last.res = Return(Money(400))

-----------------------------------------------------------------------------
(* Properties of the Store's product list                                  *)

(* How often product i occurs in the list *)
Occurrences(ps, i) == Cardinality({k \in 1 .. Len(ps) : ps[k] = i})

RECURSIVE StockOf(_, _, _)
StockOf(ids, ps, h) ==
    IF ids = {} THEN 0
    ELSE LET i == CHOOSE i \in ids : TRUE
         IN  Occurrences(ps, i) * h[i].quantity + StockOf(ids \ {i}, ps, h)

(* The list without the entries of product i *)
Others(ps, i) == SelectSeq(ps, LAMBDA j : j # i)

(* C13: Store.getTotalQuantity() equals the sum of quantity over all       *)
(* products currently in the store (each entry of the list, active or not) *)
(* after any sequence of addProduct, removeProduct, order and product      *)
(* setQuantity / activate / deactivate calls.                              *)
C13_TotalQuantity ==
    /\ get_total_quantity(products, objs) = StockOf(DOMAIN objs, products, objs)
    /\ last.op = "get_total_quantity"
          => last.res = Return(StockOf(DOMAIN objs, products, objs))

C13_Witness ==
    /\ last.op = "get_total_quantity"
    /\ Len(products) >= 2
    /\ InList(products, "widget")
    /\ ~objs.widget.active
    /\ objs.widget.quantity > 0
    /\ InList(products, "shipping")
    /\ objs.shipping.quantity > 0
    /\ last.res.ret = objs.widget.quantity + objs.shipping.quantity

(* C14: Store.getAllProducts() returns exactly the store's products with   *)
(* isActive() == true, in their relative store order (empty when none is   *)
(* active); a product whose stock was exhausted by an order is absent from *)
(* every later listing until it is explicitly reactivated.                 *)
C14_ActiveListing ==
    /\ [](/\ get_all_products(products, objs)
               = SelectSeq(products, LAMBDA i : objs[i].active)
          /\ last.op = "get_all_products"
               => last.listing = SelectSeq(products, LAMBDA i : objs[i].active))
    /\ [][\A i \in DOMAIN objs :
            /\ (OrderLooped /\ last'.obj = i /\ last'.res.ok
                   /\ objs[i].kind \in Stocked /\ objs'[i].quantity = 0)
                 => ~InList(get_all_products(products', objs'), i)
            /\ (objs[i].kind \in Stocked /\ ~objs[i].active
                   /\ InList(get_all_products(products', objs'), i))
                 => (last'.op = "activate" /\ last'.obj = i)]_vars

C14_Witness ==
    /\ last.op = "get_all_products"
    /\ products = <<"widget", "shipping", "license">>
    /\ objs.widget.quantity = 0
    /\ ~objs.widget.active
    /\ last.listing = <<"shipping", "license">>

(* C17: Store.removeProduct(p) raises no error; when p is absent the       *)
(* product sequence is unchanged, and when p is present it removes p while *)
(* preserving the relative order of all other products, so that p is no    *)
(* longer counted by getTotalQuantity nor returned by getAllProducts.      *)
C17_RemoveProduct ==
    [][\A i \in DOMAIN objs :
        (last'.op = "remove_product" /\ last'.obj = i)
        => /\ last'.res = Done
           /\ ~InList(products, i) => products' = products
           /\ InList(products, i)
                 => /\ ~InList(products', i)
                    /\ Others(products', i) = Others(products, i)
                    /\ get_total_quantity(products', objs')
                         = get_total_quantity(Others(products, i), objs)
                    /\ ~InList(get_all_products(products', objs'), i)]_vars

-----------------------------------------------------------------------------
(* Properties of one product object                                        *)

IsStocked(i) == Built(i) /\ objs[i].kind \in Stocked
IsNonStocked(i) == Built(i) /\ objs[i].kind = "NonStockedProduct"

(* The step is a call of buy on object i (directly or by Store.order) *)
BuyStep(i) == last'.op = "buy" /\ last'.obj = i /\ Built(i)

(* C1: for a Standard or Limited product, in every state reachable after   *)
(* create and any purchase, setQuantity, activate and deactivate calls,    *)
(* active is false whenever quantity == 0.                                 *)
C1_InactiveAtZero ==
    \A i \in DOMAIN objs :
        (IsStocked(i) /\ objs[i].quantity = 0) => ~objs[i].active

(* C2: purchase(q) on an active Standard product with no promotion, stock  *)
(* S and 1 <= q <= S returns unit_price*q and leaves quantity == S-q; the  *)
(* product is inactive afterwards exactly when S-q == 0.                   *)
C2_PurchaseStandard ==
    [][\A i \in DOMAIN objs :
        ( /\ BuyStep(i)
          /\ objs[i].kind = "Product"
          /\ objs[i].active
          /\ objs[i].promotion = None
          /\ 1 <= last'.quantity
          /\ last'.quantity <= objs[i].quantity )
        => /\ last'.res = Return(Money(objs[i].price * last'.quantity))
           /\ objs'[i].quantity = objs[i].quantity - last'.quantity
           /\ objs'[i].active = (objs[i].quantity - last'.quantity > 0)
           /\ (objs'[i].active <=> objs'[i].quantity # 0)]_vars

C2_Witness ==
    /\ last.op = "buy" /\ last.res.ok /\ last.quantity >= 2
    /\ objs[last.obj].kind = "Product"
    /\ objs[last.obj].promotion = None
    /\ objs[last.obj].price > 0
    /\ objs[last.obj].quantity = 0
    /\ ~objs[last.obj].active

(* C5 as stated: for any Standard product with stock S and any q > S,      *)
(* purchase(q) fails with InsufficientStockError and leaves quantity       *)
(* unchanged.                                                              *)
C5_Original ==
    [][\A i \in DOMAIN objs :
        ( /\ BuyStep(i)
          /\ objs[i].kind = "Product"
          /\ last'.quantity > objs[i].quantity )
        => /\ last'.res = Raise(InsufficientStockError)
           /\ objs'[i].quantity = objs[i].quantity]_vars

(* C5 amended: for any ACTIVE Standard product with stock S >= 0 and any   *)
(* q > S, purchase(q) fails with InsufficientStockError; and whenever      *)
(* q > S, active or not, the purchase fails and leaves the object as it    *)
(* was.                                                                    *)
C5_InsufficientStock ==
    [][\A i \in DOMAIN objs :
        ( /\ BuyStep(i)
          /\ objs[i].kind = "Product"
          /\ last'.quantity > objs[i].quantity )
        => /\ ~last'.res.ok
           /\ objs'[i] = objs[i]
           /\ (objs[i].active /\ objs[i].quantity >= 0)
                 => last'.res = Raise(InsufficientStockError)]_vars

C5_Witness ==
    /\ last.op = "buy"
    /\ last.res = Raise(InsufficientStockError)
    /\ objs[last.obj].kind = "Product"
    /\ objs[last.obj].active
    /\ objs[last.obj].quantity > 0
    /\ last.quantity > objs[last.obj].quantity

(* C6: purchase(0) and purchase(q) for any negative q always fail with     *)
(* InvalidQuantityError and never mutate state, for every product variant  *)
(* (Limited with any configured maximum) and in every product state.       *)
C6_InvalidQuantity ==
    [][\A i \in DOMAIN objs :
        (BuyStep(i) /\ last'.quantity <= 0)
        => /\ last'.res = Raise(InvalidQuantityError)
           /\ objs' = objs
           /\ promos' = promos]_vars

(* C7: constructing a Product succeeds if and only if name is non-empty,   *)
(* price >= 0 and quantity >= 0 (otherwise ValidationError); on success    *)
(* the stored name, price and quantity equal the arguments and             *)
(* isActive() == (quantity > 0).                                           *)
C7_Construct ==
    (last.op = "create" /\ last.kind \in Stocked)
    => LET valid == last.name # "" /\ last.price >= 0 /\ last.quantity >= 0
           o == objs[last.obj]
       IN  /\ last.res.ok <=> valid
           /\ ~valid => /\ ~last.res.ok
                         /\ last.res.err \in ValidationErrors
                         /\ o = Unbuilt
           /\ valid => /\ o.kind = last.kind
                       /\ o.name = last.name
                       /\ o.price = last.price
                       /\ o.quantity = last.quantity
                       /\ o.active = (last.quantity > 0)
                       /\ o.promotion = None

C7_Witness ==
    /\ last.op = "create" /\ last.kind = "Product" /\ last.res.ok
    /\ objs[last.obj].quantity = 0
    /\ ~objs[last.obj].active
    /\ objs[last.obj].price = 0

(* C8: for a Standard or Limited product the only transition from Inactive *)
(* to Active is an explicit activate(): setQuantity(q) with q > 0 on an    *)
(* inactive product changes the quantity but leaves it inactive, and no    *)
(* purchase ever turns an inactive product active.                         *)
C8_OnlyActivateActivates ==
    [][\A i \in DOMAIN objs :
        (IsStocked(i) /\ ~objs[i].active)
        => /\ objs'[i].active => (last'.op = "activate" /\ last'.obj = i)
           /\ (last'.op = "set_quantity" /\ last'.obj = i)
                 => (objs'[i].quantity = last'.quantity /\ ~objs'[i].active)
           /\ (last'.op = "buy" /\ last'.obj = i) => ~objs'[i].active]_vars

C8_Witness ==
    /\ last.op = "set_quantity" /\ last.quantity > 0
    /\ IsStocked(last.obj)
    /\ objs[last.obj].quantity = last.quantity
    /\ ~objs[last.obj].active

(* C9: for a NonStocked product, after any sequence of purchase and        *)
(* setQuantity calls the quantity is 0 and isActive() is true (it is so    *)
(* after construction and both calls keep it so), and purchase(q) for      *)
(* every q > 0 succeeds and returns unit_price*q when no promotion is      *)
(* attached.                                                               *)
C9_NonStocked ==
    [][\A i \in DOMAIN objs :
        /\ (last'.op = "create" /\ last'.obj = i /\ last'.res.ok
               /\ last'.kind = "NonStockedProduct")
              => (objs'[i].quantity = 0 /\ objs'[i].active)
        /\ (IsNonStocked(i) /\ last'.obj = i
               /\ last'.op \in {"buy", "set_quantity"})
              => /\ objs[i].quantity = 0
                 /\ objs'[i].quantity = 0
                 /\ objs'[i].active = objs[i].active
                 /\ (last'.op = "buy" /\ last'.quantity > 0
                        /\ objs[i].promotion = None)
                       => last'.res = Return(Money(objs[i].price * last'.quantity))]_vars

C9_Witness ==
    /\ last.op = "buy" /\ last.quantity > MaxQty
    /\ IsNonStocked(last.obj)
    /\ objs[last.obj].active
    /\ objs[last.obj].promotion = None
    /\ objs[last.obj].price > 0
    /\ last.res = Return(Money(objs[last.obj].price * last.quantity))

(* C10: a NonStocked product is always active: isActive() is true in every *)
(* state reachable through purchase, setQuantity, activate, deactivate and *)
(* setPromotion.                                                           *)
C10_NonStockedAlwaysActive ==
    \A i \in DOMAIN objs : IsNonStocked(i) => objs[i].active

(* C11: for an active Limited product with maximum M >= 1 and stock S,     *)
(* purchase(M) succeeds when S >= M and takes M from the stock, and        *)
(* purchase(M+1) fails with PurchaseLimitError even when S >= M+1, leaving *)
(* quantity and active unchanged.                                          *)
C11_PurchaseLimit ==
    [][\A i \in DOMAIN objs :
        ( /\ BuyStep(i)
          /\ objs[i].kind = "LimitedProduct"
          /\ objs[i].active
          /\ objs[i].maximum >= 1 )
        => /\ (last'.quantity = objs[i].maximum
                  /\ objs[i].quantity >= objs[i].maximum)
                 => /\ last'.res.ok
                    /\ objs'[i].quantity = objs[i].quantity - objs[i].maximum
           /\ last'.quantity = objs[i].maximum + 1
                 => /\ last'.res = Raise(PurchaseLimitError)
                    /\ objs'[i].quantity = objs[i].quantity
                    /\ objs'[i].active = objs[i].active]_vars

C11_Witness ==
    /\ last.op = "buy"
    /\ last.res = Raise(PurchaseLimitError)
    /\ objs[last.obj].kind = "LimitedProduct"
    /\ objs[last.obj].active
    /\ objs[last.obj].maximum >= 1
    /\ last.quantity = objs[last.obj].maximum + 1
    /\ objs[last.obj].quantity >= last.quantity

(* C18: with a promotion attached, a successful purchase(q) on a Standard  *)
(* or Limited product returns promotion.apply(unit_price, q), the stock    *)
(* still goes down by the full q and the product is deactivated exactly    *)
(* when the stock reaches 0; on a NonStocked product the promotion total   *)
(* is returned and the stock stays 0.                                      *)
C18_PromotionPurchase ==
    [][\A i \in DOMAIN objs :
        ( /\ BuyStep(i)
          /\ objs[i].promotion # None
          /\ last'.res.ok )
        => LET q == last'.quantity
           IN  /\ last'.res = Return(apply_promotion(promos[objs[i].promotion],
                                                     objs[i].price, q))
               /\ objs[i].kind \in Stocked
                     => /\ objs'[i].quantity = objs[i].quantity - q
                        /\ objs'[i].active = (objs[i].quantity - q # 0)
               /\ objs[i].kind = "NonStockedProduct"
                     => /\ objs[i].quantity = 0
                        /\ objs'[i].quantity = 0]_vars

C18_Witness ==
    /\ last.op = "buy" /\ last.quantity = 2
    /\ IsStocked(last.obj)
    /\ objs[last.obj].promotion # None
    /\ promos[objs[last.obj].promotion].kind = "SecondHalfPrice"
    /\ objs[last.obj].price = 2
    /\ last.res = Return(Money(3))
    /\ objs[last.obj].quantity = 0
    /\ ~objs[last.obj].active

(* C19: the first failing check determines the error of purchase(q): on a  *)
(* Limited product q > M yields PurchaseLimitError whatever the other      *)
(* rules say (inactive, q above the stock, q <= 0); otherwise q <= 0       *)
(* yields InvalidQuantityError, otherwise an inactive product yields       *)
(* InactiveProductError, otherwise q above the stock yields                *)
(* InsufficientStockError.                                                 *)
C19_CheckOrder ==
    [][\A i \in DOMAIN objs :
        (BuyStep(i) /\ objs[i].kind \in Stocked)
        => LET q == last'.quantity
               overLimit == objs[i].kind = "LimitedProduct" /\ q > objs[i].maximum
           IN  /\ overLimit => last'.res = Raise(PurchaseLimitError)
               /\ (~overLimit /\ q <= 0)
                     => last'.res = Raise(InvalidQuantityError)
               /\ (~overLimit /\ q > 0 /\ ~objs[i].active)
                     => last'.res = Raise(InactiveProductError)
               /\ (~overLimit /\ q > 0 /\ objs[i].active /\ q > objs[i].quantity)
                     => last'.res = Raise(InsufficientStockError)]_vars

C19_Witness ==
    /\ last.op = "buy"
    /\ last.res = Raise(PurchaseLimitError)
    /\ objs[last.obj].kind = "LimitedProduct"
    /\ ~objs[last.obj].active
    /\ last.quantity > objs[last.obj].maximum
    /\ last.quantity > objs[last.obj].quantity
    /\ objs[last.obj].quantity > 0

(* The step is a call of activate on object i *)
ActivateStep(i) == last'.op = "activate" /\ last'.obj = i /\ Built(i)

(* C20 as stated: an inactive Standard or Limited product with stock       *)
(* S > 0 rejects purchase(q) for every 1 <= q <= S with                    *)
(* InactiveProductError and unchanged quantity; activate() keeps the stock *)
(* and afterwards the same purchase(q) succeeds and leaves S-q.            *)
C20_Original ==
    [][\A i \in DOMAIN objs :
        LET S == objs[i].quantity
            q == last'.quantity
        IN  /\ (BuyStep(i) /\ IsStocked(i) /\ 1 <= q /\ q <= S)
                  => IF objs[i].active
                     THEN last'.res.ok /\ objs'[i].quantity = S - q
                     ELSE /\ last'.res = Raise(InactiveProductError)
                          /\ objs'[i].quantity = S
            /\ (ActivateStep(i) /\ IsStocked(i))
                  => (objs'[i].active /\ objs'[i].quantity = S)]_vars

(* C20 amended: the same for every 1 <= q <= S that, on a Limited product, *)
(* does not exceed the per-order maximum M.                                *)
C20_DeactivatedRejects ==
    [][\A i \in DOMAIN objs :
        LET S == objs[i].quantity
            q == last'.quantity
            withinLimit == objs[i].kind = "LimitedProduct" => q <= objs[i].maximum
        IN  /\ (BuyStep(i) /\ IsStocked(i) /\ 1 <= q /\ q <= S /\ withinLimit)
                  => IF objs[i].active
                     THEN last'.res.ok /\ objs'[i].quantity = S - q
                     ELSE /\ last'.res = Raise(InactiveProductError)
                          /\ objs'[i] = objs[i]
            /\ (ActivateStep(i) /\ IsStocked(i))
                  => (objs'[i].active /\ objs'[i].quantity = S)]_vars

C20_Witness ==
    /\ last.op = "buy"
    /\ last.res = Raise(InactiveProductError)
    /\ objs[last.obj].kind = "LimitedProduct"
    /\ ~objs[last.obj].active
    /\ 1 <= last.quantity
    /\ last.quantity <= objs[last.obj].quantity
    /\ last.quantity <= objs[last.obj].maximum

(* The step is the item (i, last'.quantity) of the running order *)
ItemStep(i) == OrderLooped /\ last'.op = "buy" /\ last'.obj = i

(* The step before was the item (i, last.quantity), which was bought *)
AfterBoughtItem(i) ==
    pc = "order" /\ last.op = "buy" /\ last.obj = i /\ last.res.ok

(* C23 as stated: when the same Standard product with stock S appears      *)
(* twice in a shopping list with q1 then q2, q1 <= S < q1+q2, the first    *)
(* item succeeds (leaving S-q1), the second fails, contributes 0 and       *)
(* leaves the stock at S-q1; when q1 == S the second fails because the     *)
(* product has become inactive.                                            *)
C23_Original ==
    [][\A i \in DOMAIN objs :
        objs[i].kind = "Product"
        => LET S == objs[i].quantity
               q == last'.quantity
           IN  /\ (ItemStep(i) /\ q <= S)
                     => /\ last'.res.ok
                        /\ objs'[i].quantity = S - q
               /\ (AfterBoughtItem(i) /\ ItemStep(i) /\ q > S)
                     => /\ ~last'.res.ok
                        /\ total_price' = total_price
                        /\ objs'[i].quantity = S
                        /\ S = 0 => last'.res = Raise(InactiveProductError)]_vars

(* C23 amended: the same for an active product and 1 <= q1: the first item *)
(* (i, q1) with 1 <= q1 <= S on the active product succeeds and leaves     *)
(* S-q1; the item (i, q2) that follows it with q2 above what is left       *)
(* fails, adds nothing to the total and leaves the stock as it is, with    *)
(* InactiveProductError when nothing is left and InsufficientStockError    *)
(* otherwise.                                                              *)
C23_SequentialItems ==
    [][\A i \in DOMAIN objs :
        objs[i].kind = "Product"
        => LET S == objs[i].quantity
               q == last'.quantity
           IN  /\ (ItemStep(i) /\ objs[i].active /\ 1 <= q /\ q <= S)
                     => /\ last'.res.ok
                        /\ objs'[i].quantity = S - q
                        /\ objs'[i].active = (S - q > 0)
               /\ (AfterBoughtItem(i) /\ ItemStep(i) /\ q > S)
                     => /\ ~last'.res.ok
                        /\ total_price' = total_price
                        /\ objs'[i] = objs[i]
                        /\ S = 0 => last'.res = Raise(InactiveProductError)
                        /\ S > 0 => last'.res = Raise(InsufficientStockError)]_vars

(* The order [(widget, S), (widget, q2)]: the first item bought the whole  *)
(* stock and the second found the product inactive                         *)
C23_Witness ==
    /\ pc = "order"
    /\ todo = MaxItems - 2
    /\ total_price = Money(2 * MaxStock)
    /\ last.op = "buy" /\ last.obj = "widget"
    /\ last.res = Raise(InactiveProductError)
    /\ objs.widget.quantity = 0

(* C24: a purchase on one product, direct or as an item of Store.order,    *)
(* leaves every other product as it was (quantity, active flag and         *)
(* promotion), also one that shares the buyer's Promotion object, and      *)
(* leaves the Promotion objects and the Store's product sequence as they   *)
(* were.                                                                   *)
C24_PurchaseFrame ==
    [][\A i \in DOMAIN objs :
        BuyStep(i)
        => /\ \A j \in DOMAIN objs \ {i} : objs'[j] = objs[j]
           /\ promos' = promos
           /\ products' = products]_vars

(* A purchase of widget was made while shipping and license held the same  *)
(* Promotion object as widget                                              *)
C24_Witness ==
    /\ last.op = "buy" /\ last.obj = "widget" /\ last.res.ok
    /\ objs.widget.promotion # None
    /\ objs.shipping.promotion = objs.widget.promotion
    /\ objs.license.promotion = objs.widget.promotion
    /\ objs.shipping.quantity > 0
    /\ objs.shipping.active

(* C25: for every product of the active listing, check_availability(       *)
(* product, requested, cart_qty) admits the item exactly when product.buy  *)
(* of the cumulative quantity cart_qty + requested would not fail for      *)
(* insufficient stock.                                                     *)
C25_CartAgreesWithCore ==
    last.op = "check_availability"
    => ( last.admitted
         <=> buy(objs[last.obj], promos, last.cart_qty + last.requested_qty).res
               # Raise(InsufficientStockError) )

(* C22: stock conservation: for a Standard or Limited product created     *)
(* with stock S0 and then subjected to any sequence of purchases (direct   *)
(* or as items of Store.order), activate and deactivate calls, without     *)
(* setQuantity, the current quantity plus the sum of the quantities of all *)
(* successful purchases equals S0; failed purchases add nothing.           *)
C22_StockConservation ==
    \A i \in DOMAIN ledger :
        objs[i].quantity + ledger[i].sold = ledger[i].initial

(* Everything was sold, the product was activated again and a further      *)
(* purchase failed                                                         *)
C22_Witness ==
    /\ last.op = "buy" /\ last.obj = "widget"
    /\ last.res = Raise(InsufficientStockError)
    /\ ledger.widget.initial = MaxStock
    /\ ledger.widget.sold = MaxStock
    /\ ledger.shipping.sold = 1

(* C21: the stock of a Standard or Limited product never goes negative:    *)
(* after any sequence of purchases (successful or failed), activate,       *)
(* deactivate and setQuantity(q) calls with q >= 0, quantity >= 0 holds in *)
(* every reachable state, also when the product was activated at           *)
(* quantity 0.                                                             *)
C21_StockNonNegative ==
    \A i \in DOMAIN objs : IsStocked(i) => objs[i].quantity >= 0

(* A purchase attempted on a product that is active at quantity 0 *)
C21_Witness ==
    /\ last.op = "buy" /\ last.quantity >= 1
    /\ IsStocked(last.obj)
    /\ objs[last.obj].active
    /\ objs[last.obj].quantity = 0
    /\ last.res = Raise(InsufficientStockError)

====
